---- MODULE Spec2Model ----
(***************************************************************************)
(* A model of the command-line driver of trafilatura                       *)
(* (src/trafilatura/cli.py): main() and the functions it calls.            *)
(*                                                                         *)
(* Process 0 is the main process; processes 1..cpu_count are the workers   *)
(* of the multiprocessing Pool that main() starts for --inputdir.  The     *)
(* external collaborators (fetch_url, extract, find_feed_urls, the file    *)
(* system, stdin) answer nondeterministically; every call to them is       *)
(* recorded in the history variable trace.  A document is abstracted to    *)
(* its length, the only thing examine() looks at.                          *)
(***************************************************************************)
EXTENDS Integers, Sequences, FiniteSets, TLC

\* ------------------------------------------------------------- bounds
\* Longest batch of URLs (lines of the URL list, links of the feed).
MaxItems == 3
\* Most files of the input directory.
MaxFiles == 2
\* Size of the slug space (62^6 in the program).
NumSlugs == 3
\* What multiprocessing.cpu_count() answers: the size of the Pool.
cpu_count == 2

\* ---------------------------------------------------------- constants
\* from .settings import MIN_FILE_SIZE, MAX_FILE_SIZE, SLEEP_TIME (scaled down).
MIN_FILE_SIZE == 1
MAX_FILE_SIZE == 2
SLEEP_TIME == 2
\* random.seed(345)
Seed == 345

\* Every value a process holds is a tuple: None is the empty one, a document
\* is <<"str", its length>>, a text or a name is a tuple of strings.
None == << >>
NoFile == <<"no file">>
OldContent == <<"old">>
Procs == 0..cpu_count
Workers == 1..cpu_count

\* ------------------------------------------------------------ strings
\* A string is a sequence of characters, so that startswith() and strip()
\* are computed as Python computes them.
Whitespace == {" ", "\t", "\n", "\r"}
HttpPrefix == <<"h", "t", "t", "p">>

\* str.startswith(prefix)
StartsWith(s, prefix) ==
  /\ Len(s) >= Len(prefix)
  /\ SubSeq(s, 1, Len(prefix)) = prefix

RECURSIVE LStrip(_)
LStrip(s) ==
  IF s # << >> /\ Head(s) \in Whitespace THEN LStrip(Tail(s)) ELSE s

RECURSIVE RStrip(_)
RStrip(s) ==
  IF s # << >> /\ s[Len(s)] \in Whitespace THEN RStrip(SubSeq(s, 1, Len(s) - 1)) ELSE s

\* str.strip()
Strip(s) == LStrip(RStrip(s))

\* A line of the input file whose bytes are not valid UTF-8.
BadLine == <<"\\xff">>
Decodable(line) == line # BadLine

\* The lines and names the batches are drawn from.
LineHttp1 == <<"h", "t", "t", "p", "1", "\n">>
LineHttp2 == <<"h", "t", "t", "p", "2", "\n">>
LineSkip == <<"s", "k", "i", "p", "\n">>
LineTrailing == <<"h", "t", "t", "p", "3", " ", "\n">>
LineLeading == <<" ", "h", "t", "t", "p", "4", "\n">>
LineShort == <<"h", "t", "t", "\n">>
LineInner == <<"x", "h", "t", "t", "p", "\n">>
ExplicitURL == <<"h", "t", "t", "p", "u">>

SeqsUpTo(S, lo, hi) == UNION {[1..k -> S] : k \in lo..hi}

\* ------------------------------------------------------ random source
\* The generator is a deterministic function of its state: random.seed(345)
\* fixes the state, every slug drawn advances it.  The slug space is finite,
\* so the stream of slugs repeats.
Slugs == 1..NumSlugs
RngStates == 0..(NumSlugs - 1)
SeedState == Seed % NumSlugs
RandomSlug(r) == r + 1
Advance(r) == (r + 1) % NumSlugs

Exts == {".txt", ".xml", ".csv"}
Paths == Slugs \X Exts

\* ---------------------------------------------------------- arguments
Formats == {"txt", "csv", "xml", "xmltei"}

\* parse_args: the parsed command line (the options the driver branches on).
ArgsSpace ==
  [inputfile : BOOLEAN, feed : BOOLEAN, inputdir : BOOLEAN, URL : BOOLEAN,
   outputdir : BOOLEAN, list : BOOLEAN,
   csv : BOOLEAN, xml : BOOLEAN, xmltei : BOOLEAN, output_format : Formats]

\* The mapping with the xml flag tested before the csv flag.
map_args_xml_first(a) ==
  IF a.xml THEN [a EXCEPT !.output_format = "xml"]
  ELSE IF a.csv THEN [a EXCEPT !.output_format = "csv"]
  ELSE IF a.xmltei THEN [a EXCEPT !.output_format = "xmltei"]
  ELSE a

\* map_args
map_args(a) ==
  IF a.csv THEN [a EXCEPT !.output_format = "csv"]
  ELSE IF a.xml THEN [a EXCEPT !.output_format = "xml"]
  ELSE IF a.xmltei THEN [a EXCEPT !.output_format = "xmltei"]
  ELSE a

\* The chain with its first two branches exchanged: the feed before the URL list.
ResolveModeFeedFirst(a) ==
  IF a.feed THEN "feed"
  ELSE IF a.inputfile THEN "inputfile"
  ELSE IF a.inputdir THEN "inputdir"
  ELSE IF a.URL THEN "URL"
  ELSE "stdin"

\* main(): the if / elif chain over the input selectors.
ResolveMode(a) ==
  IF a.inputfile THEN "inputfile"
  ELSE IF a.feed THEN "feed"
  ELSE IF a.inputdir THEN "inputdir"
  ELSE IF a.URL THEN "URL"
  ELSE "stdin"

\* determine_filename: the extension, and the path for a drawn slug.
Extension(a) ==
  IF a.xml \/ a.xmltei THEN ".xml"
  ELSE IF a.csv THEN ".csv"
  ELSE ".txt"

determine_filename(a, r) == <<RandomSlug(r), Extension(a)>>

\* ------------------------------------------------------------ examine
\* Lengths a document can have (one past MAX_FILE_SIZE is enough to be too large).
Lengths == 0..(MAX_FILE_SIZE + 1)

\* The check with the upper bound exclusive.
GateExclusiveMax(h) ==
  IF h = None THEN "empty document"
  ELSE IF h[2] >= MAX_FILE_SIZE THEN "file too large"
  ELSE IF h[2] < MIN_FILE_SIZE THEN "file too small"
  ELSE "ok"

\* examine(): the safety check before extraction.
Gate(h) ==
  IF h = None THEN "empty document"
  ELSE IF h[2] > MAX_FILE_SIZE THEN "file too large"
  ELSE IF h[2] < MIN_FILE_SIZE THEN "file too small"
  ELSE "ok"

\* An except clause catches an exception when it names its class or a base of it.
Catches(clause, exc) == clause = "Exception" \/ clause = exc

\* A clause that names one class only.
ExamineExceptNarrow == "UnicodeDecodeError"

\* A clause around sys.stdin.read() that names another class.
StdinExceptOther == "OSError"

\* The except clauses of the driver.
ExamineExcept == "Exception"
FileExcept == "UnicodeDecodeError"
InputfileExcept == "UnicodeDecodeError"
StdinExcept == "UnicodeDecodeError"

\* What the collaborators can answer.
Documents == {<<"str", n>> : n \in Lengths}
FetchOutcomes == {None} \cup Documents
ReadOutcomes == {<<"UnicodeDecodeError">>, <<"OSError">>} \cup Documents
StdinOutcomes == {<<"UnicodeDecodeError">>} \cup Documents
ExtractOutcomes == {"text", "ExtractFault"}

\* The text extract() returns for the item-th document of the run.
ItemTag == <<"0", "1", "2", "3", "4", "5", "6", "7">>
TextOf(item) == <<"text", ItemTag[item + 1]>>

\* The write without its newline.
StdoutTextBare(text) == text

\* sys.stdout.write(result + '\n')
StdoutText(text) == text \o <<"\n">>

\* url_processing_pipeline(args, input_urls, SLEEP_TIME): the sleeptime passed.
SleepArg == SLEEP_TIME

\* ---------------------------------------------------------- URL list
\* The test for "http" anywhere in the line.
IsUrlLineAnywhere(line) ==
  \E i \in 1..Len(line) : StartsWith(SubSeq(line, i, Len(line)), HttpPrefix)

\* main(): the test on a line of the input file, and the URL kept for it.
IsUrlLine(line) == StartsWith(line, HttpPrefix)
UrlOfLine(line) == Strip(line)

\* main(): the loop over the lines of the input file.  error is set when a
\* line cannot be decoded, which ends the loop.
RECURSIVE ReadLines(_, _)
ReadLines(lines, acc) ==
  IF lines = << >> THEN acc
  ELSE LET line == Head(lines) IN
       IF ~Decodable(line) THEN [acc EXCEPT !.error = TRUE]
       ELSE IF ~IsUrlLine(line)
            THEN ReadLines(Tail(lines), [acc EXCEPT !.warned = Append(@, line)])
            ELSE ReadLines(Tail(lines), [acc EXCEPT !.urls = Append(@, UrlOfLine(line))])

ParseUrlList(lines) == ReadLines(lines, [urls |-> << >>, warned |-> << >>, error |-> FALSE])

\* -------------------------------------------------------------- state
VARIABLES
  args,         \* the parsed command line
  items,        \* the batch source: lines of the URL list, links of the feed, files of the directory
  pc,           \* where each process is
  rng,          \* each process's state of the random module
  cur,          \* the number of the item each process is working on
  htmlstring,   \* each process's raw document
  result,       \* each process's result of examine()
  output_path,  \* each process's generated file name
  input_urls,   \* main(): the URLs of the batch
  tasks,        \* Pool.map: the items no worker has taken yet
  outdir,       \* the output directory: "absent", "present" or "blocked" (cannot be created)
  files,        \* the files of the output directory: path -> content
  stdout,       \* what reached the standard output stream, one element per piece
  outbuf,       \* each process's sys.stdout buffer: what it wrote and has not flushed
  stderr,       \* what was written to sys.stderr, one element per diagnostic
  log,          \* the LOGGER.warning records
  trace,        \* history: the calls to the collaborators, in order
  replay        \* history: the command line and output directory at the start, the first run's file names

vars == <<args, items, pc, rng, cur, htmlstring, result, output_path, input_urls,
          tasks, outdir, files, stdout, stderr, log, trace, replay, outbuf>>

Ev(op, item, arg) == [op |-> op, item |-> item, arg |-> arg]
Diag(item, msg) == [item |-> item, msg |-> msg]

\* The files of an output directory that holds the slugs of taken under the
\* run's extension.
InitialFiles(a, taken) ==
  [p \in Paths |-> IF p[1] \in taken /\ p[2] = Extension(a) THEN OldContent ELSE NoFile]

InitState(a, its, od, taken) ==
  /\ args = a
  /\ items = its
  /\ pc = [p \in Procs |-> IF p = 0 THEN "start" ELSE "off"]
  /\ rng = [p \in Procs |-> SeedState]
  /\ cur = [p \in Procs |-> 0]
  /\ htmlstring = [p \in Procs |-> None]
  /\ result = [p \in Procs |-> None]
  /\ output_path = [p \in Procs |-> None]
  /\ input_urls = << >>
  /\ tasks = << >>
  /\ outdir = od
  /\ files = InitialFiles(a, taken)
  /\ stdout = << >>
  /\ outbuf = [p \in Procs |-> << >>]
  /\ stderr = << >>
  /\ log = << >>
  /\ trace = << >>
  /\ replay = [run |-> 1, outdir |-> od, files |-> InitialFiles(a, taken),
               names |-> << >>, seeded |-> TRUE, args |-> a]

\* ------------------------------------------------------------- main()
Mode == ResolveMode(args)

\* The sleep taken only after an item that gave a result.
ReturnSleepOnSuccess(p) ==
  IF p \in Workers THEN "idle"
  ELSE IF ResolveMode(args) \in {"inputfile", "feed"}
       THEN (IF args.list \/ result[p] = None THEN "batch" ELSE "sleep")
       ELSE "done"

\* Where a process goes on when write_result returns: a worker is done with
\* its task; url_processing_pipeline sleeps (or, with --list, loops); the
\* single-item branch of main() ends.
Return(p) ==
  IF p \in Workers THEN "idle"
  ELSE IF Mode \in {"inputfile", "feed"}
       THEN (IF args.list THEN "batch" ELSE "sleep")
       ELSE "done"

\* main(): parse_args, map_args and the branch over the input selectors.
Start ==
  /\ pc[0] = "start"
  /\ args' = map_args(args)
  /\ pc' = [pc EXCEPT ![0] = ResolveMode(map_args(args))]
  /\ UNCHANGED <<items, rng, cur, htmlstring, result, output_path, input_urls, tasks,
                 outdir, files, stdout, stderr, log, trace, replay, outbuf>>

\* main(): read the URL list from the input file.
ReadInputFile ==
  /\ pc[0] = "inputfile"
  /\ LET read == ParseUrlList(items) IN
     /\ trace' = Append(trace, Ev("open_inputfile", 0, None))
     /\ log' = log \o [i \in 1..Len(read.warned) |-> Diag(0, <<"Not an URL">> \o read.warned[i])]
     /\ IF read.error
        THEN IF Catches(InputfileExcept, "UnicodeDecodeError")
             THEN /\ stderr' = Append(stderr, Diag(0, "exit: system, file type or buffer encoding"))
                  /\ pc' = [pc EXCEPT ![0] = "exit"]
                  /\ UNCHANGED input_urls
             ELSE /\ pc' = [pc EXCEPT ![0] = "crashed"]
                  /\ UNCHANGED <<stderr, input_urls>>
        ELSE /\ input_urls' = read.urls
             /\ pc' = [pc EXCEPT ![0] = "batch"]
             /\ UNCHANGED stderr
  /\ UNCHANGED <<args, items, rng, cur, htmlstring, result, output_path, tasks,
                 outdir, files, stdout, replay, outbuf>>

\* main(): fetch urls from a feed.
FindFeedUrls ==
  /\ pc[0] = "feed"
  /\ trace' = Append(trace, Ev("find_feed_urls", 0, None))
  /\ input_urls' = items
  /\ pc' = [pc EXCEPT ![0] = "batch"]
  /\ UNCHANGED <<args, items, rng, cur, htmlstring, result, output_path, tasks,
                 outdir, files, stdout, stderr, log, replay, outbuf>>

\* url_processing_pipeline: the loop over input_urls.
UrlLoop ==
  /\ pc[0] = "batch"
  /\ IF cur[0] < Len(input_urls)
     THEN /\ cur' = [cur EXCEPT ![0] = @ + 1]
          /\ IF args.list
             THEN /\ result' = [result EXCEPT ![0] = input_urls[cur[0] + 1]]
                  /\ pc' = [pc EXCEPT ![0] = "write"]
             ELSE /\ pc' = [pc EXCEPT ![0] = "fetch"]
                  /\ UNCHANGED result
     ELSE /\ pc' = [pc EXCEPT ![0] = "done"]
          /\ UNCHANGED <<cur, result>>
  /\ UNCHANGED <<args, items, rng, htmlstring, output_path, input_urls, tasks,
                 outdir, files, stdout, stderr, log, trace, replay, outbuf>>

\* url_processing_pipeline: htmlstring = fetch_url(url)
FetchUrl ==
  /\ pc[0] = "fetch"
  /\ \E h \in FetchOutcomes :
       htmlstring' = [htmlstring EXCEPT ![0] = h]
  /\ trace' = Append(trace, Ev("fetch_url", cur[0], input_urls[cur[0]]))
  /\ pc' = [pc EXCEPT ![0] = "examine"]
  /\ UNCHANGED <<args, items, rng, cur, result, output_path, input_urls, tasks,
                 outdir, files, stdout, stderr, log, replay, outbuf>>

\* url_processing_pipeline: sleep(sleeptime)
Sleep ==
  /\ pc[0] = "sleep"
  /\ trace' = Append(trace, Ev("sleep", cur[0], SleepArg))
  /\ pc' = [pc EXCEPT ![0] = "batch"]
  /\ htmlstring' = [htmlstring EXCEPT ![0] = None]
  /\ result' = [result EXCEPT ![0] = None]
  /\ output_path' = [output_path EXCEPT ![0] = None]
  /\ UNCHANGED <<args, items, rng, cur, input_urls, tasks,
                 outdir, files, stdout, stderr, log, replay, outbuf>>

\* main(): process input URL
FetchSingle ==
  /\ pc[0] = "URL"
  /\ trace' = Append(trace, Ev("fetch_url", 1, ExplicitURL))
  /\ cur' = [cur EXCEPT ![0] = 1]
  /\ \E h \in FetchOutcomes :
       IF h = None
       THEN /\ stderr' = Append(stderr, Diag(1, "exit: no valid result for url"))
            /\ pc' = [pc EXCEPT ![0] = "exit"]
            /\ UNCHANGED htmlstring
       ELSE /\ htmlstring' = [htmlstring EXCEPT ![0] = h]
            /\ pc' = [pc EXCEPT ![0] = "examine"]
            /\ UNCHANGED stderr
  /\ UNCHANGED <<args, items, rng, result, output_path, input_urls, tasks,
                 outdir, files, stdout, log, replay, outbuf>>

\* main(): process input on STDIN
ReadStdin ==
  /\ pc[0] = "stdin"
  /\ trace' = Append(trace, Ev("stdin_read", 1, None))
  /\ cur' = [cur EXCEPT ![0] = 1]
  /\ \E h \in StdinOutcomes :
       IF h = <<"UnicodeDecodeError">>
       THEN IF Catches(StdinExcept, "UnicodeDecodeError")
            THEN /\ stderr' = Append(stderr, Diag(1, "exit: system, file type or buffer encoding"))
                 /\ pc' = [pc EXCEPT ![0] = "exit"]
                 /\ UNCHANGED htmlstring
            ELSE /\ pc' = [pc EXCEPT ![0] = "crashed"]
                 /\ UNCHANGED <<stderr, htmlstring>>
       ELSE /\ htmlstring' = [htmlstring EXCEPT ![0] = h]
            /\ pc' = [pc EXCEPT ![0] = "examine"]
            /\ UNCHANGED stderr
  /\ UNCHANGED <<args, items, rng, result, output_path, input_urls, tasks,
                 outdir, files, stdout, log, replay, outbuf>>

\* ------------------------------------------------------------ examine
\* examine(htmlstring, args, url): the safety check, then extract() inside
\* try / except.  An exception no clause catches leaves the function: it ends
\* the main process, or fails the worker's task.
Examine(p) ==
  /\ pc[p] = "examine"
  /\ IF Gate(htmlstring[p]) # "ok"
     THEN /\ stderr' = Append(stderr, Diag(cur[p], Gate(htmlstring[p])))
          /\ result' = [result EXCEPT ![p] = None]
          /\ pc' = [pc EXCEPT ![p] = "write"]
          /\ UNCHANGED trace
     ELSE \E o \in ExtractOutcomes :
            IF o = "text"
            THEN /\ trace' = Append(trace, Ev("extract", cur[p], <<args.output_format, "text">>))
                 /\ result' = [result EXCEPT ![p] = TextOf(cur[p])]
                 /\ pc' = [pc EXCEPT ![p] = "write"]
                 /\ UNCHANGED stderr
            ELSE IF Catches(ExamineExcept, o)
                 THEN /\ trace' = Append(trace, Ev("extract", cur[p], <<args.output_format, o>>))
                      /\ stderr' = Append(stderr, Diag(cur[p], "extract: fault"))
                      /\ result' = [result EXCEPT ![p] = None]
                      /\ pc' = [pc EXCEPT ![p] = "write"]
                 ELSE /\ trace' = Append(Append(trace, Ev("extract", cur[p], <<args.output_format, o>>)),
                                         Ev("uncaught", cur[p], <<o>>))
                      /\ pc' = [pc EXCEPT ![p] = IF p = 0 THEN "crashed" ELSE "idle"]
                      /\ UNCHANGED <<stderr, result>>
  /\ UNCHANGED <<args, items, rng, cur, htmlstring, output_path, input_urls, tasks,
                 outdir, files, stdout, log, replay, outbuf>>

\* ------------------------------------------------------- write_result
\* A write_result that draws a file name before it looks at the result.
WriteResultDrawsFirst(p) ==
  /\ pc[p] = "write"
  /\ rng' = [rng EXCEPT ![p] = Advance(@)]
  /\ IF result[p] = None
     THEN /\ pc' = [pc EXCEPT ![p] = Return(p)]
          /\ UNCHANGED <<stdout, outbuf>>
     ELSE IF ~args.outputdir
          THEN /\ IF p \in Workers
                  THEN /\ outbuf' = [outbuf EXCEPT ![p] = @ \o StdoutText(result[p])]
                       /\ UNCHANGED stdout
                  ELSE /\ stdout' = Append(stdout, StdoutText(result[p]))
                       /\ UNCHANGED outbuf
               /\ pc' = [pc EXCEPT ![p] = Return(p)]
          ELSE /\ pc' = [pc EXCEPT ![p] = "checkdir"]
               /\ UNCHANGED <<stdout, outbuf>>
  /\ UNCHANGED <<args, items, cur, htmlstring, result, output_path, input_urls, tasks,
                 outdir, files, stderr, log, trace, replay>>

\* write_result(result, args): nothing for no result; STDOUT without an
\* output directory; else on to check_outputdir_status.  The main process is
\* alone on the stream and flushes when it exits: what it writes reaches the
\* stream whole and in order.  A Pool worker writes into the buffer of its own
\* sys.stdout over the file descriptor all the workers share.
WriteResult(p) ==
  /\ pc[p] = "write"
  /\ IF result[p] = None
     THEN /\ pc' = [pc EXCEPT ![p] = Return(p)]
          /\ UNCHANGED <<stdout, outbuf>>
     ELSE IF ~args.outputdir
          THEN /\ IF p \in Workers
                  THEN /\ outbuf' = [outbuf EXCEPT ![p] = @ \o StdoutText(result[p])]
                       /\ UNCHANGED stdout
                  ELSE /\ stdout' = Append(stdout, StdoutText(result[p]))
                       /\ UNCHANGED outbuf
               /\ pc' = [pc EXCEPT ![p] = Return(p)]
          ELSE /\ pc' = [pc EXCEPT ![p] = "checkdir"]
               /\ UNCHANGED <<stdout, outbuf>>
  /\ UNCHANGED <<args, items, rng, cur, htmlstring, result, output_path, input_urls, tasks,
                 outdir, files, stderr, log, trace, replay>>

\* A worker's sys.stdout flushes: when its buffer fills, which can be in the
\* middle of a result, or at a newline when the stream is line buffered.  The
\* first k characters of the buffer reach the stream as one piece.
Flush(p) ==
  /\ outbuf[p] # << >>
  /\ \E k \in 1..Len(outbuf[p]) :
       /\ stdout' = Append(stdout, SubSeq(outbuf[p], 1, k))
       /\ outbuf' = [outbuf EXCEPT ![p] = SubSeq(@, k + 1, Len(@))]
  /\ UNCHANGED <<args, items, pc, rng, cur, htmlstring, result, output_path, input_urls, tasks,
                 outdir, files, stderr, log, trace, replay>>

\* check_outputdir_status: path.exists(args.outputdir) and path.isdir(...)
CheckOutputdir(p) ==
  /\ pc[p] = "checkdir"
  /\ pc' = [pc EXCEPT ![p] = IF outdir = "present" THEN "pick" ELSE "makedirs"]
  /\ UNCHANGED <<args, items, rng, cur, htmlstring, result, output_path, input_urls, tasks,
                 outdir, files, stdout, stderr, log, trace, replay, outbuf>>

\* makedirs without the try: its failure leaves write_result.
MakedirsUncaught(p) ==
  /\ pc[p] = "makedirs"
  /\ trace' = Append(trace, Ev("makedirs", cur[p], <<outdir>>))
  /\ IF outdir = "absent"
     THEN /\ outdir' = "present"
          /\ pc' = [pc EXCEPT ![p] = "pick"]
     ELSE /\ pc' = [pc EXCEPT ![p] = IF p = 0 THEN "crashed" ELSE "idle"]
          /\ UNCHANGED outdir
  /\ UNCHANGED <<args, items, rng, cur, htmlstring, result, output_path, input_urls, tasks,
                 files, stdout, stderr, log, replay, outbuf>>

\* check_outputdir_status: makedirs(args.outputdir) inside try / except OSError.
\* makedirs raises OSError when the directory cannot be created, and
\* FileExistsError (an OSError) when it exists by now.
Makedirs(p) ==
  /\ pc[p] = "makedirs"
  /\ trace' = Append(trace, Ev("makedirs", cur[p], <<outdir>>))
  /\ IF outdir = "absent"
     THEN /\ outdir' = "present"
          /\ pc' = [pc EXCEPT ![p] = "pick"]
          /\ UNCHANGED stderr
     ELSE /\ stderr' = Append(stderr, Diag(cur[p], "Destination directory cannot be created"))
          /\ pc' = [pc EXCEPT ![p] = Return(p)]
          /\ UNCHANGED outdir
  /\ UNCHANGED <<args, items, rng, cur, htmlstring, result, output_path, input_urls, tasks,
                 files, stdout, log, replay, outbuf>>

\* write_result: output_path = determine_filename(args), and the test of the
\* while loop, path.exists(output_path).
NewFilename(p) ==
  /\ pc[p] = "pick"
  /\ output_path' = [output_path EXCEPT ![p] = determine_filename(args, rng[p])]
  /\ rng' = [rng EXCEPT ![p] = Advance(@)]
  /\ pc' = [pc EXCEPT ![p] =
              IF files[determine_filename(args, rng[p])] # NoFile THEN "pick" ELSE "open"]
  /\ UNCHANGED <<args, items, cur, htmlstring, result, input_urls, tasks,
                 outdir, files, stdout, stderr, log, trace, replay, outbuf>>

\* write_result: with open(output_path, mode='w') ...: outputfile.write(result)
\* Mode 'w' creates the file, or truncates the one that is there.  The event
\* records what was at the path when it was opened.
OpenWrite(p) ==
  /\ pc[p] = "open"
  /\ trace' = Append(trace, Ev("open", cur[p], <<output_path[p], files[output_path[p]]>>))
  /\ files' = [files EXCEPT ![output_path[p]] = result[p]]
  /\ pc' = [pc EXCEPT ![p] = Return(p)]
  /\ UNCHANGED <<args, items, rng, cur, htmlstring, result, output_path, input_urls, tasks,
                 outdir, stdout, stderr, log, replay, outbuf>>

\* --------------------------------------------------------------- Pool
\* main(): with Pool(processes=cpu_count()) as pool: pool.map(..., generate_filelist(...))
\* The directory is walked and every file becomes a task.  A worker starts
\* with the state of the random module the platform gives it: the parent's
\* (fork), the seeded one (spawn imports the module again), or a fresh one
\* (Python >= 3.7 reseeds after fork).
PoolStart ==
  /\ pc[0] = "inputdir"
  /\ tasks' = [i \in 1..Len(items) |-> i]
  /\ \E seeds \in [Workers -> RngStates] :
       /\ rng' = [p \in Procs |-> IF p = 0 THEN rng[0] ELSE seeds[p]]
       /\ trace' = Append(trace, Ev("walk", 0, seeds))
  /\ pc' = [p \in Procs |-> IF p = 0 THEN "join" ELSE "idle"]
  /\ UNCHANGED <<args, items, cur, htmlstring, result, output_path, input_urls,
                 outdir, files, stdout, stderr, log, replay, outbuf>>

\* Pool worker: take the next task off the queue.
TakeTask(p) ==
  /\ pc[p] = "idle"
  /\ tasks # << >>
  /\ cur' = [cur EXCEPT ![p] = Head(tasks)]
  /\ tasks' = Tail(tasks)
  /\ htmlstring' = [htmlstring EXCEPT ![p] = None]
  /\ result' = [result EXCEPT ![p] = None]
  /\ output_path' = [output_path EXCEPT ![p] = None]
  /\ pc' = [pc EXCEPT ![p] = "read"]
  /\ UNCHANGED <<args, items, rng, input_urls, outdir, files, stdout, stderr, log,
                 trace, replay, outbuf>>

\* file_processing_pipeline: open and read the file inside
\* try / except UnicodeDecodeError.
ReadFile(p) ==
  /\ pc[p] = "read"
  /\ \E o \in ReadOutcomes :
       IF o \in Documents
       THEN /\ trace' = Append(trace, Ev("open_file", cur[p], o))
            /\ htmlstring' = [htmlstring EXCEPT ![p] = o]
            /\ pc' = [pc EXCEPT ![p] = "examine"]
            /\ UNCHANGED log
       ELSE IF Catches(FileExcept, o[1])
            THEN /\ trace' = Append(trace, Ev("open_file", cur[p], o))
                 /\ log' = Append(log, Diag(cur[p], <<"Discarding (file type issue)">>))
                 /\ pc' = [pc EXCEPT ![p] = "idle"]
                 /\ UNCHANGED htmlstring
            ELSE /\ trace' = Append(Append(trace, Ev("open_file", cur[p], o)),
                                    Ev("uncaught", cur[p], o))
                 /\ pc' = [pc EXCEPT ![p] = "idle"]
                 /\ UNCHANGED <<htmlstring, log>>
  /\ UNCHANGED <<args, items, rng, cur, result, output_path, input_urls, tasks,
                 outdir, files, stdout, stderr, replay, outbuf>>

Uncaught == \E i \in 1..Len(trace) : trace[i].op = "uncaught"

\* A map that returns without waiting for the tasks.
PoolJoinNoWait ==
  /\ pc[0] = "join"
  /\ pc' = [p \in Procs |-> IF p # 0 THEN "off" ELSE IF Uncaught THEN "crashed" ELSE "done"]
  /\ outbuf' = [p \in Procs |-> IF p \in Workers THEN << >> ELSE outbuf[p]]
  /\ UNCHANGED <<args, items, rng, cur, htmlstring, result, output_path, input_urls, tasks,
                 outdir, files, stdout, stderr, log, trace, replay>>

\* pool.map returns when every task is done, and raises what a task raised.
\* Leaving the with block terminates the workers, and what is still in their
\* buffers is lost.
PoolJoin ==
  /\ pc[0] = "join"
  /\ tasks = << >>
  /\ \A w \in Workers : pc[w] = "idle"
  /\ pc' = [p \in Procs |-> IF p # 0 THEN "off" ELSE IF Uncaught THEN "crashed" ELSE "done"]
  /\ outbuf' = [p \in Procs |-> IF p \in Workers THEN << >> ELSE outbuf[p]]
  /\ UNCHANGED <<args, items, rng, cur, htmlstring, result, output_path, input_urls, tasks,
                 outdir, files, stdout, stderr, log, trace, replay>>

\* pool.map raises as soon as the first failed task reports back, and leaving
\* the with block terminates the Pool: the workers stop where they are and
\* the tasks not yet taken are dropped.
PoolAbort ==
  /\ pc[0] = "join"
  /\ Uncaught
  /\ pc' = [p \in Procs |-> IF p # 0 THEN "off" ELSE "crashed"]
  /\ outbuf' = [p \in Procs |-> IF p \in Workers THEN << >> ELSE outbuf[p]]
  /\ UNCHANGED <<args, items, rng, cur, htmlstring, result, output_path, input_urls, tasks,
                 outdir, files, stdout, stderr, log, trace, replay>>

\* ------------------------------------------------------------ history
\* The subsequence of the events of trace that satisfy Test.
RECURSIVE Events(_, _)
Events(tr, ops) ==
  IF tr = << >> THEN << >>
  ELSE IF Head(tr).op \in ops THEN <<Head(tr)>> \o Events(Tail(tr), ops)
       ELSE Events(Tail(tr), ops)

\* The paths opened for writing, in order.
Names(tr) == [i \in 1..Len(Events(tr, {"open"})) |-> Events(tr, {"open"})[i].arg[1]]

\* Every worker of the run's Pool started from the seeded state.
Seeded(tr) ==
  \A i \in 1..Len(tr) : tr[i].op = "walk" => \A w \in Workers : tr[i].arg[w] = SeedState

\* A second run of the same command line on the same output directory.
Restart ==
  /\ pc[0] = "done"
  /\ replay.run = 1
  /\ replay' = [replay EXCEPT !.run = 2, !.names = Names(trace), !.seeded = Seeded(trace)]
  /\ pc' = [p \in Procs |-> IF p = 0 THEN "start" ELSE "off"]
  /\ rng' = [p \in Procs |-> SeedState]
  /\ cur' = [p \in Procs |-> 0]
  /\ htmlstring' = [p \in Procs |-> None]
  /\ result' = [p \in Procs |-> None]
  /\ output_path' = [p \in Procs |-> None]
  /\ input_urls' = << >>
  /\ tasks' = << >>
  /\ outdir' = replay.outdir
  /\ files' = replay.files
  /\ stdout' = << >>
  /\ outbuf' = [p \in Procs |-> << >>]
  /\ stderr' = << >>
  /\ log' = << >>
  /\ trace' = << >>
  /\ UNCHANGED <<args, items>>

\* ----------------------------------------------------- specifications
NoFlags(a) == ~a.csv /\ ~a.xml /\ ~a.xmltei /\ a.output_format = "txt"

\* Every combination of the input selectors, with and without --list and an
\* output directory.
ArgsMain == {a \in ArgsSpace : NoFlags(a)}

Init ==
  \E a \in ArgsMain :
    \E its \in SeqsUpTo({LineHttp1, LineSkip}, 0, MaxItems) :
      \E od \in {"absent", "present", "blocked"} :
        /\ ResolveMode(a) \in {"URL", "stdin"} => its = << >>
        /\ ResolveMode(a) = "inputdir" => Len(its) <= 1
        /\ ~a.outputdir => od = "absent"
        /\ InitState(a, its, od, {})

Next ==
  \/ Start
  \/ ReadInputFile
  \/ FindFeedUrls
  \/ UrlLoop
  \/ FetchUrl
  \/ Sleep
  \/ FetchSingle
  \/ ReadStdin
  \/ PoolStart
  \/ PoolJoin
  \/ PoolAbort
  \/ \E p \in Workers : TakeTask(p)
  \/ \E p \in Workers : ReadFile(p)
  \/ \E p \in Procs : Examine(p)
  \/ \E p \in Procs : WriteResult(p)
  \/ \E p \in Procs : CheckOutputdir(p)
  \/ \E p \in Procs : Makedirs(p)
  \/ \E p \in Procs : NewFilename(p)
  \/ \E p \in Procs : OpenWrite(p)
  \/ \E p \in Workers : Flush(p)

Spec == Init /\ [][Next]_vars

\* The output directories a run can start from: one that cannot be created,
\* one that is not there yet, one that holds files under some of the slugs.
OutputDirs == {<<"blocked", {}>>, <<"absent", {}>>} \cup {<<"present", t>> : t \in SUBSET Slugs}

\* URL batches: a URL list or a feed, every state of the output directory.
InitUrl ==
  \E a \in ArgsMain :
    \E its \in SeqsUpTo({LineHttp1, LineSkip}, 0, MaxItems) :
      \E d \in OutputDirs :
        /\ ResolveMode(a) \in {"inputfile", "feed"}
        /\ ~a.inputdir /\ ~a.URL /\ ~(a.inputfile /\ a.feed)
        /\ ~a.outputdir => d = <<"absent", {}>>
        /\ InitState(a, its, d[1], d[2])

NextUrl ==
  \/ Start
  \/ ReadInputFile
  \/ FindFeedUrls
  \/ UrlLoop
  \/ FetchUrl
  \/ Sleep
  \/ Examine(0)
  \/ WriteResult(0)
  \/ CheckOutputdir(0)
  \/ Makedirs(0)
  \/ NewFilename(0)
  \/ OpenWrite(0)

SpecUrl == InitUrl /\ [][NextUrl]_vars

\* The main process is the only one of a URL batch and keeps running: a step
\* that can be taken is taken.
SpecUrlFair == InitUrl /\ [][NextUrl]_vars /\ WF_vars(NextUrl)

\* URL lists: every kind of line, no output directory.
Lines == {LineHttp1, LineHttp2, LineSkip, LineTrailing, LineLeading, LineShort, LineInner, BadLine}

InitList ==
  \E a \in ArgsMain :
    \E its \in SeqsUpTo(Lines, 0, MaxItems) :
      /\ a.inputfile /\ ~a.feed /\ ~a.inputdir /\ ~a.URL /\ ~a.outputdir
      /\ InitState(a, its, "absent", {})

NextList ==
  \/ Start
  \/ ReadInputFile
  \/ UrlLoop
  \/ FetchUrl
  \/ Sleep
  \/ Examine(0)
  \/ WriteResult(0)

SpecList == InitList /\ [][NextList]_vars

\* Directory batches into an output directory.
FileNames == <<LineHttp1, LineHttp2, LineSkip, LineShort>>

InitPool ==
  \E a \in ArgsMain :
    \E n \in 0..MaxFiles :
      \E d \in OutputDirs :
        /\ a.inputdir /\ ~a.inputfile /\ ~a.feed /\ ~a.URL /\ ~a.list /\ a.outputdir
        /\ InitState(a, SubSeq(FileNames, 1, n), d[1], d[2])

NextPool ==
  \/ Start
  \/ PoolStart
  \/ PoolJoin
  \/ PoolAbort
  \/ \E p \in Workers : TakeTask(p)
  \/ \E p \in Workers : ReadFile(p)
  \/ \E p \in Workers : Examine(p)
  \/ \E p \in Workers : WriteResult(p)
  \/ \E p \in Workers : CheckOutputdir(p)
  \/ \E p \in Workers : Makedirs(p)
  \/ \E p \in Workers : NewFilename(p)
  \/ \E p \in Workers : OpenWrite(p)

SpecPool == InitPool /\ [][NextPool]_vars

\* Two runs, one after the other, of one directory batch on one output directory.
InitTwoRuns ==
  \E a \in ArgsMain :
    \E d \in {<<"absent", {}>>, <<"present", {}>>} :
      /\ a.inputdir /\ ~a.inputfile /\ ~a.feed /\ ~a.URL /\ ~a.list /\ a.outputdir
      /\ InitState(a, SubSeq(FileNames, 1, MaxFiles), d[1], d[2])

NextTwoRuns ==
  \/ NextPool
  \/ Restart

SpecTwoRuns == InitTwoRuns /\ [][NextTwoRuns]_vars

\* Every mode, with URL lists that can hold a line that does not decode.
InitFatal ==
  \E a \in ArgsMain :
    \E its \in SeqsUpTo({LineHttp1, LineSkip, BadLine}, 0, MaxItems) :
      \E od \in {"absent", "present", "blocked"} :
        /\ ResolveMode(a) \in {"URL", "stdin"} => its = << >>
        /\ ResolveMode(a) = "inputdir" => its \in {<< >>, <<LineHttp1>>}
        /\ ResolveMode(a) = "feed" => \A i \in 1..Len(its) : its[i] # BadLine
        /\ ~a.outputdir => od = "absent"
        /\ InitState(a, its, od, {})

SpecFatal == InitFatal /\ [][Next]_vars

\* URL batches into an output directory under every selection of the format:
\* the three flags and --output-format in every combination.
InitFormat ==
  \E a \in ArgsSpace :
    \E its \in SeqsUpTo({LineHttp1}, 0, MaxItems) :
      \E d \in {<<"absent", {}>>, <<"present", {}>>, <<"present", {1}>>} :
        /\ ~a.inputdir /\ ~a.URL /\ ~(a.inputfile /\ a.feed) /\ (a.inputfile \/ a.feed)
        /\ a.outputdir /\ ~a.list
        /\ InitState(a, its, d[1], d[2])

SpecFormat == InitFormat /\ [][NextUrl]_vars

\* Directory batches onto standard output.
InitPoolOut ==
  \E a \in ArgsMain :
    \E n \in 0..MaxFiles :
      /\ a.inputdir /\ ~a.inputfile /\ ~a.feed /\ ~a.URL /\ ~a.list /\ ~a.outputdir
      /\ InitState(a, SubSeq(FileNames, 1, n), "absent", {})

NextPoolOut ==
  \/ Start
  \/ PoolStart
  \/ PoolJoin
  \/ PoolAbort
  \/ \E p \in Workers : TakeTask(p)
  \/ \E p \in Workers : ReadFile(p)
  \/ \E p \in Workers : Examine(p)
  \/ \E p \in Workers : WriteResult(p)
  \/ \E p \in Workers : Flush(p)

SpecPoolOut == InitPoolOut /\ [][NextPoolOut]_vars

\* ------------------------------------------------------------- claims
Terminated == pc[0] \in {"done", "exit", "crashed"}
Count(tr, ops) == Len(Events(tr, ops))

\* The mode the claimed precedence selects: URL-list file > feed URL > input
\* directory > explicit URL > input stream.
Precedence(a) ==
  CASE a.inputfile -> "inputfile"
    [] ~a.inputfile /\ a.feed -> "feed"
    [] ~a.inputfile /\ ~a.feed /\ a.inputdir -> "inputdir"
    [] ~a.inputfile /\ ~a.feed /\ ~a.inputdir /\ a.URL -> "URL"
    [] OTHER -> "stdin"

\* The modes an event can belong to: reading a source belongs to that
\* source's mode, fetching a URL of a batch to the two URL batches.
ModesOf(e) ==
  CASE e.op = "open_inputfile" -> {"inputfile"}
    [] e.op = "find_feed_urls" -> {"feed"}
    [] e.op \in {"walk", "open_file"} -> {"inputdir"}
    [] e.op = "stdin_read" -> {"stdin"}
    [] e.op = "fetch_url" -> (IF e.arg = ExplicitURL THEN {"URL"} ELSE {"inputfile", "feed"})
    [] e.op = "sleep" -> {"inputfile", "feed"}
    [] OTHER -> {"inputfile", "feed", "inputdir", "URL", "stdin"}

\* The event that reads the source of a mode.
SourceOp(mode) ==
  CASE mode = "inputfile" -> "open_inputfile"
    [] mode = "feed" -> "find_feed_urls"
    [] mode = "inputdir" -> "walk"
    [] mode = "URL" -> "fetch_url"
    [] OTHER -> "stdin_read"

\* C8: for every combination of the input selectors, every source read,
\* URL fetched and item processed belongs to the mode the precedence
\* URL-list file > feed > input directory > explicit URL > input stream
\* selects, and a run that ended has read that mode's source, once.
C8_OneModeByPrecedence ==
  /\ \A i \in 1..Len(trace) : Precedence(args) \in ModesOf(trace[i])
  /\ Count(trace, {"open_inputfile", "find_feed_urls", "walk", "stdin_read"}) <= 1
  /\ Terminated => \E i \in 1..Len(trace) : trace[i].op = SourceOp(Precedence(args))

\* C8 witness: all four selectors were given, the URL list was read, one of
\* its URLs was fetched, and the run ended.
C8_Witness ==
  /\ args.inputfile /\ args.feed /\ args.inputdir /\ args.URL
  /\ pc[0] = "done"
  /\ Count(trace, {"fetch_url"}) >= 1

StreamMode == ~args.inputfile /\ ~args.feed /\ ~args.inputdir /\ ~args.URL /\ ~args.outputdir
Valid(h) == h # None /\ h[2] >= MIN_FILE_SIZE /\ h[2] <= MAX_FILE_SIZE

\* C10: in input-stream mode a document that passes validation has extract()
\* called exactly once; the text it returns is written to standard output
\* followed by one newline, as the only write (nothing is written when extract
\* raised); nothing is fetched, no delay is applied, stdin is read once.
C10_StreamOnce ==
  (StreamMode /\ pc[0] = "done" /\ Valid(htmlstring[0])) =>
     /\ Count(trace, {"extract"}) = 1
     /\ Events(trace, {"extract"})[1].arg[2] = "text" => stdout = <<TextOf(1) \o <<"\n">>>>
     /\ Events(trace, {"extract"})[1].arg[2] # "text" => stdout = << >>
     /\ Count(trace, {"fetch_url", "sleep", "open", "makedirs"}) = 0
     /\ Count(trace, {"stdin_read"}) = 1
     /\ \A p \in Paths : files[p] = replay.files[p]

\* C10 witness: a valid document came in on stdin and its text was written.
C10_Witness ==
  /\ StreamMode /\ pc[0] = "done" /\ Valid(htmlstring[0])
  /\ stdout # << >>

\* The diagnostics on stderr about an item, in order.
RECURSIVE DiagsOf(_, _)
DiagsOf(err, item) ==
  IF err = << >> THEN << >>
  ELSE IF Head(err).item = item THEN <<Head(err).msg>> \o DiagsOf(Tail(err), item)
       ELSE DiagsOf(Tail(err), item)

\* The calls of extract() on an item.
ExtractsOf(item) ==
  {i \in 1..Len(trace) : trace[i].op = "extract" /\ trace[i].item = item}

\* Process p has just returned from examine(): --list hands the URL to
\* write_result without examining anything.
Examined(p) ==
  /\ pc[p] = "write"
  /\ ~(p = 0 /\ args.list /\ (args.inputfile \/ args.feed))

\* C1: when examine() returns, absent content has given the one diagnostic
\* "empty document", a length above MAX_FILE_SIZE "file too large", a
\* length below MIN_FILE_SIZE "file too small", each with no result and
\* without a call of extract(); a length from MIN_FILE_SIZE to MAX_FILE_SIZE,
\* both included, has given one call of extract() and none of these three.
C1_ExamineGate ==
  \A p \in Procs : Examined(p) =>
    LET h == htmlstring[p]
        diags == DiagsOf(stderr, cur[p])
        refused(msg) == diags = <<msg>> /\ result[p] = None /\ ExtractsOf(cur[p]) = {}
    IN /\ h = None => refused("empty document")
       /\ (h # None /\ h[2] > MAX_FILE_SIZE) => refused("file too large")
       /\ (h # None /\ h[2] < MIN_FILE_SIZE) => refused("file too small")
       /\ (h # None /\ h[2] >= MIN_FILE_SIZE /\ h[2] <= MAX_FILE_SIZE) =>
            /\ Cardinality(ExtractsOf(cur[p])) = 1
            /\ \A i \in 1..Len(diags) : diags[i] = "extract: fault"
            /\ Len(diags) <= 1
            /\ (result[p] = None) = (Len(diags) = 1)

\* C1 witness: a document of exactly MAX_FILE_SIZE was examined and gave a result.
C1_Witness ==
  \E p \in Procs :
    /\ Examined(p)
    /\ htmlstring[p] = <<"str", MAX_FILE_SIZE>>
    /\ result[p] # None

\* A URL batch that fetches: a URL list or a feed, without --list.
FetchingBatch == (args.inputfile \/ args.feed) /\ ~args.list

Fetches == Events(trace, {"fetch_url"})

\* C2: in a URL batch without --list the URLs fetched so far are the first
\* URLs of input_urls, in order; the batch never ends on an exception; and
\* when it has ended every URL of input_urls has been fetched, whatever
\* became of the URLs before it.
C2_EveryUrlAttempted ==
  FetchingBatch =>
    /\ Len(Fetches) <= Len(input_urls)
    /\ \A k \in 1..Len(Fetches) : Fetches[k].arg = input_urls[k] /\ Fetches[k].item = k
    /\ pc[0] # "crashed"
    /\ pc[0] = "done" => Len(Fetches) = Len(input_urls)

\* C2 witness: the batch ended after its first URL gave nothing to fetch, its
\* second a document refused by the check and its third a fault of extract().
C2_Witness ==
  /\ FetchingBatch /\ pc[0] = "done"
  /\ Len(input_urls) = 3 /\ Len(Fetches) = 3
  /\ DiagsOf(stderr, 1) = <<"empty document">>
  /\ DiagsOf(stderr, 2) = <<"file too small">>
  /\ DiagsOf(stderr, 3) = <<"extract: fault">>

\* The time slept, over the sleep events of a trace.
RECURSIVE Slept(_)
Slept(tr) ==
  IF tr = << >> THEN 0
  ELSE (IF Head(tr).op = "sleep" THEN Head(tr).arg ELSE 0) + Slept(Tail(tr))

\* C9: in a URL batch between any two fetches lies a sleep of SLEEP_TIME
\* that belongs to the earlier URL; nothing of a URL's cycle (its fetch, its
\* extract, its write) happens after that URL's sleep; and a batch that
\* ended after n fetches slept at least (n - 1) * SLEEP_TIME.
C9_DelayBetweenFetches ==
  /\ \A i \in 1..Len(trace) : \A j \in (i + 1)..Len(trace) :
       (trace[i].op = "fetch_url" /\ trace[j].op = "fetch_url") =>
          \E m \in (i + 1)..(j - 1) :
             /\ trace[m].op = "sleep"
             /\ trace[m].arg = SLEEP_TIME
             /\ trace[m].item = trace[i].item
  /\ \A i \in 1..Len(trace) : \A j \in (i + 1)..Len(trace) :
       trace[i].op = "sleep" => trace[j].item # trace[i].item
  /\ (pc[0] = "done" /\ Len(Fetches) >= 1) =>
       Slept(trace) >= (Len(Fetches) - 1) * SLEEP_TIME

\* C9 witness: three URLs were fetched, the first of them failed, and the
\* batch slept 4 time units or more.
C9_Witness ==
  /\ pc[0] = "done"
  /\ Len(Fetches) = 3
  /\ DiagsOf(stderr, 1) # << >>
  /\ Slept(trace) >= 4

\* The line begins with the four characters h, t, t, p.
BeginsHttp(line) ==
  Len(line) >= 4 /\ line[1] = "h" /\ line[2] = "t" /\ line[3] = "t" /\ line[4] = "p"

\* The line without its line terminator.
Chomp(line) ==
  IF line # << >> /\ line[Len(line)] = "\n" THEN SubSeq(line, 1, Len(line) - 1) ELSE line

\* The line without the whitespace at its end.
RECURSIVE Trimmed(_)
Trimmed(line) ==
  IF line # << >> /\ line[Len(line)] \in {" ", "\t", "\n", "\r"}
  THEN Trimmed(SubSeq(line, 1, Len(line) - 1))
  ELSE line

\* The lines that begin with "http", in file order, each without the
\* whitespace at its end (trim) or without its line terminator only.
RECURSIVE HttpLines(_, _)
HttpLines(lines, trim) ==
  IF lines = << >> THEN << >>
  ELSE (IF BeginsHttp(Head(lines))
        THEN <<IF trim THEN Trimmed(Head(lines)) ELSE Chomp(Head(lines))>>
        ELSE << >>) \o HttpLines(Tail(lines), trim)

\* The lines that do not begin with "http", in file order.
RECURSIVE OtherLines(_)
OtherLines(lines) ==
  IF lines = << >> THEN << >>
  ELSE (IF BeginsHttp(Head(lines)) THEN << >> ELSE <<Head(lines)>>) \o OtherLines(Tail(lines))

\* The input file has been read to its end.
ListRead == args.inputfile /\ pc[0] \in {"batch", "fetch", "examine", "write", "sleep", "done"}

\* C7 as claimed: the resolver yields exactly the lines that begin with
\* "http", as they stand in the file (less the line terminator).
C7_Original ==
  ListRead => input_urls = HttpLines(items, FALSE)

\* C7 as amended: the resolver yields, in file order and with nothing added,
\* the lines that begin with "http", each with the whitespace at its end
\* stripped; every other line is discarded with one warning, in file order,
\* and only the yielded URLs are ever fetched.
C7_HttpLinesStripped ==
  /\ ListRead =>
       /\ input_urls = HttpLines(items, TRUE)
       /\ Len(log) = Len(OtherLines(items))
       /\ \A i \in 1..Len(log) : log[i].msg = <<"Not an URL">> \o OtherLines(items)[i]
  /\ args.inputfile =>
       \A k \in 1..Len(Fetches) :
         /\ Fetches[k].item <= Len(HttpLines(items, TRUE))
         /\ Fetches[k].arg = HttpLines(items, TRUE)[Fetches[k].item]

\* C7 witness: the file ["http1", "skip", "http2"] gave the two http lines in
\* order, one warning, and both URLs were fetched.
C7_Witness ==
  /\ items = <<LineHttp1, LineSkip, LineHttp2>>
  /\ pc[0] = "done"
  /\ input_urls = << <<"h", "t", "t", "p", "1">>, <<"h", "t", "t", "p", "2">> >>
  /\ Len(log) = 1
  /\ Len(Fetches) = 2

\* The files of the output directory that were not there when the run began.
NewFiles == {p \in Paths : files[p] # NoFile /\ replay.files[p] = NoFile}

\* The files of the batch that could not be decoded, and those extracted.
DecodeFailures ==
  {i \in 1..Len(trace) : trace[i].op = "open_file" /\ trace[i].arg = <<"UnicodeDecodeError">>}
Extracted ==
  {i \in 1..Len(trace) : trace[i].op = "extract" /\ trace[i].arg[2] = "text"}

\* C3: a directory batch of N files into an existing output directory, k of
\* which fail to decode while the other N - k are extracted, ends with
\* exactly N - k new files in the output directory and exactly k warnings.
C3_DirectoryBatchCounts ==
  ( /\ args.inputdir /\ ~args.inputfile /\ ~args.feed /\ args.outputdir
    /\ pc[0] = "done"
    /\ replay.outdir = "present"
    /\ Cardinality(Extracted) = Len(items) - Cardinality(DecodeFailures) ) =>
      /\ Cardinality(NewFiles) = Len(items) - Cardinality(DecodeFailures)
      /\ Len(log) = Cardinality(DecodeFailures)

\* C4: whenever write_result opens an output file for writing, no file is at
\* that path at that moment.
C4_UnusedAtWrite ==
  \A i \in 1..Len(trace) : trace[i].op = "open" => trace[i].arg[2] = NoFile

\* C5: a file of the output directory is never truncated or replaced: once a
\* path holds a file, its content stays what it is.
C5_NeverOverwrites ==
  [][\A p \in Paths : files[p] # NoFile => files'[p] = files[p]]_vars

\* C6: two runs of one command line on one output directory, both with every
\* process starting from the seeded random state and both making the same
\* number of file name requests, write to the same sequence of file names.
C6_SameNames ==
  ( /\ replay.run = 2
    /\ pc[0] = "done"
    /\ replay.seeded /\ Seeded(trace)
    /\ Len(Names(trace)) = Len(replay.names) ) =>
      Names(trace) = replay.names

\* The diagnostics sys.exit() prints.
ExitMsgs == {"exit: no valid result for url", "exit: system, file type or buffer encoding"}

\* C11: the process exits (non-zero, one diagnostic) only on an explicit URL
\* whose fetch gave nothing, an input stream that does not decode, or a URL
\* list that does not decode, and then nothing was extracted, written, created
\* or (for the URL list) fetched; each of these conditions does end the run
\* that way; and no failed validation, extraction or fetch of a batch item ends
\* the process: a run ends on an exception only through a file of a directory
\* batch that could not be read.
C11_FatalExits ==
  /\ pc[0] = "exit" =>
       /\ Len(stderr) = 1 /\ stderr[1].msg \in ExitMsgs
       /\ Count(trace, {"extract", "open", "makedirs", "sleep"}) = 0
       /\ stdout = << >> /\ files = replay.files /\ outdir = replay.outdir
       /\ \/ Precedence(args) = "inputfile" /\ (\E i \in 1..Len(items) : items[i] = BadLine)
                                            /\ Count(trace, {"fetch_url"}) = 0
          \/ Precedence(args) = "URL" /\ trace = <<Ev("fetch_url", 1, ExplicitURL)>>
                                      /\ htmlstring[0] = None
          \/ Precedence(args) = "stdin" /\ trace = <<Ev("stdin_read", 1, None)>>
  /\ ( /\ Terminated /\ Precedence(args) = "inputfile"
       /\ \E i \in 1..Len(items) : items[i] = BadLine ) => pc[0] = "exit"
  /\ (pc[0] = "done" /\ Precedence(args) \in {"URL", "stdin"}) => htmlstring[0] # None
  /\ pc[0] = "crashed" =>
       \E i \in 1..Len(trace) : trace[i].op = "uncaught" /\ trace[i].arg = <<"OSError">>

\* C11 witness: a URL list whose second line does not decode ended the process
\* after its first line, a URL, had been read.
C11_Witness ==
  /\ pc[0] = "exit"
  /\ args.inputfile
  /\ Len(items) >= 2 /\ items[1] = LineHttp1 /\ items[2] = BadLine

\* The extension that goes with a format.
FormatExtension(f) ==
  CASE f \in {"xml", "xmltei"} -> ".xml"
    [] f = "csv" -> ".csv"
    [] OTHER -> ".txt"

\* C12: every file written into the output directory carries the extension of
\* the run's effective output format, the one passed to extract(): ".xml" for
\* xml and xmltei, ".csv" for csv, ".txt" otherwise.
C12_ExtensionByFormat ==
  \A i \in 1..Len(trace) :
    trace[i].op = "open" => trace[i].arg[1][2] = FormatExtension(args.output_format)

\* C13: with --list and a feed or a URL list, no URL is fetched, validated or
\* extracted and no delay is applied, and the run ends with every discovered
\* URL printed on standard output, in order, one per line, with or without an
\* output directory.
C13_ListOnlyPrints ==
  (args.list /\ (args.inputfile \/ args.feed)) =>
    /\ Count(trace, {"fetch_url", "extract", "sleep"}) = 0
    /\ \A i \in 1..Len(stderr) :
         stderr[i].msg \notin {"empty document", "file too large", "file too small"}
    /\ pc[0] = "done" =>
         stdout = [i \in 1..Len(input_urls) |-> input_urls[i] \o <<"\n">>]

\* A directory batch.
DirectoryBatch == args.inputdir /\ ~args.inputfile /\ ~args.feed

\* The events of a kind about an item.
EventsOf(ops, item) == {i \in 1..Len(trace) : trace[i].op \in ops /\ trace[i].item = item}

\* C14: in a directory batch a file that cannot be read or cannot be decoded
\* is skipped with a warning, is neither extracted nor written, and does not
\* end the batch: the batch never ends on an exception, and when it has ended
\* every enumerated file was opened.
C14_ReadFailureLocal ==
  DirectoryBatch =>
    /\ \A i \in 1..Len(trace) :
         (trace[i].op = "open_file" /\ trace[i].arg \notin Documents) =>
            /\ \E k \in 1..Len(log) : log[k].item = trace[i].item
            /\ EventsOf({"extract", "open"}, trace[i].item) = {}
    /\ pc[0] # "crashed"
    /\ pc[0] = "done" => \A f \in 1..Len(items) : EventsOf({"open_file"}, f) # {}

\* Worker p is in the middle of a file's cycle.
InProgress(p) == pc[p] \in {"read", "examine", "write", "checkdir", "makedirs", "pick", "open"}

\* The cycle of file f came to its end: a file that was extracted was written
\* to standard output or into the output directory, or skipped for want of
\* the directory.
CycleFinished(f) ==
  (\E i \in EventsOf({"extract"}, f) : trace[i].arg[2] = "text") =>
     \/ ~args.outputdir /\ (\E k \in 1..Len(stdout) : stdout[k] = TextOf(f) \o <<"\n">>)
     \/ args.outputdir /\ EventsOf({"open"}, f) # {}
     \/ args.outputdir /\ (\E k \in 1..Len(stderr) :
                              /\ stderr[k].item = f
                              /\ stderr[k].msg = "Destination directory cannot be created")

\* C15: in a directory batch no file is opened twice, no two workers hold
\* the same file, at most cpu_count() files are in progress, and pool.map
\* has returned only when no task is left, no worker is busy, every
\* enumerated file was opened exactly once and its cycle came to its end.
C15_PoolWaitsForAll ==
  DirectoryBatch =>
    /\ \A f \in 1..Len(items) : Cardinality(EventsOf({"open_file"}, f)) <= 1
    /\ \A p \in Workers : \A q \in Workers :
         (p # q /\ InProgress(p) /\ InProgress(q)) => cur[p] # cur[q]
    /\ Cardinality({p \in Workers : InProgress(p)}) <= cpu_count
    /\ pc[0] = "done" =>
         /\ tasks = << >>
         /\ \A p \in Workers : ~InProgress(p)
         /\ \A f \in 1..Len(items) :
              /\ Cardinality(EventsOf({"open_file"}, f)) = 1
              /\ CycleFinished(f)

\* C15 witness: a batch of two files ended after two workers had each
\* extracted and written one of them.
C15_Witness ==
  /\ DirectoryBatch /\ pc[0] = "done" /\ Len(items) = 2
  /\ \E i \in EventsOf({"open"}, 1) : \E j \in EventsOf({"open"}, 2) :
       trace[i].arg[1] # trace[j].arg[1]
  /\ \E p \in Workers : \E q \in Workers : p # q /\ cur[p] = 1 /\ cur[q] = 2

\* The standard output stream: the pieces that reached it, end to end.
RECURSIVE Stream(_)
Stream(pieces) == IF pieces = << >> THEN << >> ELSE Head(pieces) \o Stream(Tail(pieces))

\* The files of the batch that extract() gave a text for.
ExtractedFiles ==
  {f \in 1..Len(items) : \E i \in EventsOf({"extract"}, f) : trace[i].arg[2] = "text"}

\* s is the results of the files of fs, each whole with its newline, one
\* after the other in some order.
RECURSIVE Serial(_, _)
Serial(s, fs) ==
  IF fs = {} THEN s = << >>
  ELSE \E f \in fs :
         LET unit == TextOf(f) \o <<"\n">> IN
         /\ Len(s) >= Len(unit)
         /\ SubSeq(s, 1, Len(unit)) = unit
         /\ Serial(SubSeq(s, Len(unit) + 1, Len(s)), fs \ {f})

\* C16: when a directory batch onto standard output has ended, the stream
\* holds the text of every extracted file exactly once, each followed by its
\* newline as one contiguous unit, in some order.
C16_SerializedStdout ==
  (DirectoryBatch /\ ~args.outputdir /\ pc[0] = "done") =>
     Serial(Stream(stdout), ExtractedFiles)

\* The state of the random module process p started from.
StartRng(p) ==
  IF p \in Workers /\ Count(trace, {"walk"}) = 1
  THEN Events(trace, {"walk"})[1].arg[p]
  ELSE SeedState

\* The items of the run handed to write_result with a result: the URLs with
\* --list, else the items extract() gave a text for.
WithResult ==
  IF args.list /\ (args.inputfile \/ args.feed)
  THEN {k \in 1..Len(input_urls) : k < cur[0] \/ (k = cur[0] /\ pc[0] \in {"batch", "done"})}
  ELSE {k \in 1..7 : \E i \in EventsOf({"extract"}, k) : trace[i].arg[2] = "text"}

CannotCreate == "Destination directory cannot be created"

\* C17: with an output directory that is missing and cannot be created, no
\* file is written, no file name is drawn, no exception leaves write_result
\* (a run ends on an exception only through a file that could not be read),
\* and a run that ended went through its whole batch, each item
\* with a result having tried makedirs once and been reported once; with one
\* that is missing and can be created, it is created before any file is opened.
C17_OutputDirUncreatable ==
  args.outputdir =>
    /\ replay.outdir = "blocked" =>
         /\ files = replay.files /\ outdir = "blocked"
         /\ Count(trace, {"open"}) = 0
         /\ \A p \in Procs : output_path[p] = None /\ rng[p] = StartRng(p)
         /\ pc[0] = "crashed" => Uncaught
         /\ \A k \in 1..7 : Cardinality(EventsOf({"makedirs"}, k)) <= 1
         /\ pc[0] = "done" =>
              /\ FetchingBatch => Len(Fetches) = Len(input_urls)
              /\ \A k \in WithResult :
                   /\ Cardinality(EventsOf({"makedirs"}, k)) = 1
                   /\ DiagsOf(stderr, k) = <<CannotCreate>>
    /\ replay.outdir = "absent" =>
         \A i \in 1..Len(trace) : trace[i].op = "open" =>
           \E j \in 1..(i - 1) : trace[j].op = "makedirs" /\ trace[j].arg = <<"absent">>

\* C17 witness: a batch of two URLs onto a directory that cannot be created
\* ended after both were extracted, both tried makedirs and both were reported.
C17_Witness ==
  /\ args.outputdir /\ replay.outdir = "blocked" /\ pc[0] = "done"
  /\ FetchingBatch /\ Len(Fetches) = 2
  /\ WithResult = {1, 2}
  /\ Count(trace, {"makedirs"}) = 2
  /\ Len(stderr) = 2

\* C18: the loop of write_result that draws a new name on a collision always
\* ends, whatever the output directory holds: a process that is drawing names
\* gets out of the loop, to write under an unused name or to skip the item.
C18_CollisionLoopEnds ==
  (pc[0] = "pick") ~> (pc[0] # "pick")

\* The format the claimed precedence selects: the csv flag, then the xml flag,
\* then the xmltei flag, then the value of --output-format.
Effective(a) ==
  CASE a.csv -> "csv"
    [] ~a.csv /\ a.xml -> "xml"
    [] ~a.csv /\ ~a.xml /\ a.xmltei -> "xmltei"
    [] OTHER -> a.output_format

\* C19: once main() has mapped the arguments, args.output_format is the
\* format the flags select (csv, else xml, else xmltei) or else the value of
\* --output-format, it never changes afterwards, and every call of extract()
\* of the run is made with it.
C19_FormatResolvedOnce ==
  /\ pc[0] # "start" => args.output_format = Effective(replay.args)
  /\ \A i \in 1..Len(trace) :
       trace[i].op = "extract" => trace[i].arg[1] = Effective(replay.args)

\* C19 witness: --csv --xml --output-format xmltei, and a batch that ended
\* after two items were extracted as csv.
C19_Witness ==
  /\ replay.args.csv /\ replay.args.xml /\ replay.args.output_format = "xmltei"
  /\ pc[0] = "done"
  /\ Count(trace, {"extract"}) = 2
  /\ \A i \in 1..Len(trace) : trace[i].op = "extract" => trace[i].arg[1] = "csv"

\* No file was in the output directory when the run began.
EmptyAtStart == \A p \in Paths : replay.files[p] = NoFile

\* The name the j-th draw from the seeded generator gives.
NthName(j) == <<RandomSlug((SeedState + j - 1) % NumSlugs), Extension(args)>>

\* C20: in a URL batch an item that gave no result leaves no trace on the
\* output side: it has no makedirs and no open, nothing of it is on standard
\* output, and as long as no item gave a result the output directory, its
\* files and the random state are what they were at the start; the file names
\* depend on the successful items alone: into a directory that began empty,
\* the j-th file written has the j-th name of the seeded generator, however
\* many items failed before it.
C20_NoResultNoEffect ==
  FetchingBatch =>
    /\ \A k \in 1..Len(input_urls) :
         k \notin WithResult => EventsOf({"makedirs", "open"}, k) = {}
    /\ Len(stdout) <= Cardinality(WithResult)
    /\ \A j \in 1..Len(stdout) : \E k \in WithResult : stdout[j] = TextOf(k) \o <<"\n">>
    /\ WithResult = {} =>
         /\ files = replay.files /\ outdir = replay.outdir
         /\ rng[0] = SeedState /\ stdout = << >>
    /\ (args.outputdir /\ EmptyAtStart) =>
         /\ \A j \in 1..Len(Names(trace)) : Names(trace)[j] = NthName(j)
         /\ pc[0] \in {"batch", "fetch", "examine", "write", "sleep", "done"} =>
              rng[0] = (SeedState + Len(Names(trace))) % NumSlugs

\* C20 witness: three URLs into an empty directory, the second of which gave
\* no result; the first and the third were written under the first and the
\* second name of the generator.
C20_Witness ==
  /\ FetchingBatch /\ args.outputdir /\ EmptyAtStart /\ pc[0] = "done"
  /\ WithResult = {1, 3}
  /\ Names(trace) = <<NthName(1), NthName(2)>>
  /\ EventsOf({"open"}, 1) # {} /\ EventsOf({"open"}, 3) # {}

====
